---------------------------- MODULE Spec2Model ----------------------------
(***************************************************************************)
(* statlib: the numeric core of src/statlib.py.                            *)
(*                                                                         *)
(*   approx_integral          composite trapezoid loop (lines 79-108)      *)
(*   expected_val_continuous  moment integrand and resolution (111-126)    *)
(*   variance_continuous      E[X^2] - mu^2 (129-137)                      *)
(*   Gamma                    factorial path / approximation (140-161)     *)
(*                                                                         *)
(* Numbers are exact rationals <<n, d>> in lowest terms with d > 0, so     *)
(* every statement below is about the algorithm in exact arithmetic; the   *)
(* rounding of binary floating point is outside the model.                 *)
(***************************************************************************)
EXTENDS Integers, Sequences, FiniteSets, TLC

(***************************************************************************)
(* Bounds of the model.                                                    *)
(***************************************************************************)
\* largest resolution the caller passes to approx_integral
MaxRes == 3
\* largest numerator of a Gamma argument (arguments are n/d, |n| <= MaxZNum)
MaxZNum == 12

(***************************************************************************)
(* Exact rational arithmetic.                                              *)
(***************************************************************************)
Abs(n) == IF n < 0 THEN -n ELSE n

RECURSIVE GCD(_, _)
GCD(m, n) == IF n = 0 THEN m ELSE GCD(n, m % n)

\* the rational n/d (d # 0) in lowest terms with a positive denominator
Q(n, d) ==
    LET s == IF d < 0 THEN -1 ELSE 1
        g == GCD(Abs(n), Abs(d))
    IN  <<(s * n) \div g, (s * d) \div g>>

I(n) == <<n, 1>>
Zero == <<0, 1>>
Half == <<1, 2>>
\* sums and products cancel common factors first, to keep the integers small
QAdd(p, q) ==
    LET g == GCD(p[2], q[2])
    IN  Q(p[1] * (q[2] \div g) + q[1] * (p[2] \div g), (p[2] \div g) * q[2])
QNeg(p) == <<-p[1], p[2]>>
QSub(p, q) == QAdd(p, QNeg(q))
QMul(p, q) ==
    LET g1 == GCD(Abs(p[1]), q[2])
        g2 == GCD(Abs(q[1]), p[2])
    IN  IF p[1] = 0 \/ q[1] = 0 THEN <<0, 1>>
        ELSE <<(p[1] \div g1) * (q[1] \div g2), (p[2] \div g2) * (q[2] \div g1)>>
\* q # Zero
QDiv(p, q) == Q(p[1] * q[2], p[2] * q[1])
QLt(p, q) == p[1] * q[2] < q[1] * p[2]
QLe(p, q) == p[1] * q[2] <= q[1] * p[2]
QAbs(p) == <<Abs(p[1]), p[2]>>
QIsInt(p) == p[2] = 1

(***************************************************************************)
(* Outcomes of an evaluation: a value, or an exception in flight.          *)
(***************************************************************************)
NoExc == "none"
\* Python's None: no value
None == <<0, 0>>
Ok(v) == [e |-> NoExc, v |-> v]
Raise(kind) == [e |-> kind, v |-> None]

\* the failure kinds a caller's function raises in the model
ExcKinds == {"ValueError", "OverflowError", "TypeError"}

(***************************************************************************)
(* The caller's scalar functions.  A function is a record                  *)
(*   c     coefficients <<c0, c1, c2>> of c0 + c1*x + c2*x*x               *)
(*   recip TRUE for x |-> 1/x (Python raises ZeroDivisionError at 0)       *)
(*   bad   points at which the function raises                             *)
(*   below the function raises at every x < below (None: nowhere)          *)
(*   kind  the exception it raises there                                   *)
(*   pow   the factor x^pow a moment wrapper multiplies in (0: none)       *)
(***************************************************************************)
PolyVal(c, xx) ==
    QAdd(I(c[1]), QAdd(QMul(I(c[2]), xx), QMul(I(c[3]), QMul(xx, xx))))

\* 1 / x
Reciprocal(xx) ==
    IF xx = Zero THEN Raise("ZeroDivisionError") ELSE Ok(QDiv(I(1), xx))

Power(xx, n) == IF n = 0 THEN I(1) ELSE IF n = 1 THEN xx ELSE QMul(xx, xx)

\* f(x): the call of the caller's function at x
Apply(fn, xx) ==
    LET r == IF xx \in fn.bad \/ (fn.below # None /\ QLt(xx, fn.below))
             THEN Raise(fn.kind)
             ELSE IF fn.recip THEN Reciprocal(xx)
             ELSE Ok(PolyVal(fn.c, xx))
    IN  IF r.e # NoExc THEN r ELSE Ok(QMul(Power(xx, fn.pow), r.v))


(***************************************************************************)
(* State.                                                                  *)
(***************************************************************************)
VARIABLES
    \* approx_integral's frame: parameters f, a, b, res and locals
    f, a, b, res, x, dx, last, A,
    \* position in approx_integral, the exception in flight, the value returned
    pc, exc, ret,
    \* loop iterations completed by the current call
    iters,
    \* the caller of approx_integral: the interval [lo, hi] it works on, the
    \* arguments it passed, and the outcome of its previous call
    lo, hi, args, prev,
    \* variance_continuous / expected_val_continuous: parameters pdf, inf, dx
    \* (step), the transform g, the local mu, position and value returned
    pdf, inf, step, g, mu, vpc, vret,
    \* Gamma: the argument, the local z, position, exception, value returned
    zarg, z, gpc, gexc, gret

intVars == <<f, a, b, res, x, dx, last, A, pc, exc, ret, iters>>
callerVars == <<lo, hi, args, prev>>
momVars == <<pdf, inf, step, g, mu, vpc, vret>>
gammaVars == <<zarg, z, gpc, gexc, gret>>
vars == <<intVars, callerVars, momVars, gammaVars>>

(***************************************************************************)
(* approx_integral (src/statlib.py 79-108).                                *)
(***************************************************************************)
\* lines 85-86: reversed bounds re-enter with the bounds exchanged
\* (variant: the bounds are used as passed)
SwappedBoundsKept(aa, bb) == <<aa, bb>>
SwappedBounds(aa, bb) == IF QLt(bb, aa) THEN <<bb, aa>> ELSE <<aa, bb>>

\* line 91: the except clause of safe_eval_f
\* (variant: a bare except)
CaughtAny(kind) == TRUE
Caught(kind) == kind = "ValueError"

\* lines 88-92: safe_eval_f
\* (variant: no try/except around f(x))
safe_eval_f_uncaught(fn, xx) == Apply(fn, xx)
\* (variant: every exception is turned into 0.0)
safe_eval_f_catch_all(fn, xx) ==
    LET r == Apply(fn, xx) IN IF r.e # NoExc THEN Ok(Zero) ELSE r
safe_eval_f(fn, xx) ==
    LET r == Apply(fn, xx)
    IN  IF r.e # NoExc /\ Caught(r.e) THEN Ok(Zero) ELSE r

\* line 97: dx = (b - a) / res
\* (variant: a zero res gives dx = 0 instead of raising)
StepSizeGuarded(aa, bb, rr) ==
    IF rr = 0 THEN Ok(Zero) ELSE Ok(QDiv(QSub(bb, aa), I(rr)))
StepSize(aa, bb, rr) ==
    IF rr = 0 THEN Raise("ZeroDivisionError") ELSE Ok(QDiv(QSub(bb, aa), I(rr)))

\* line 100: the loop condition
\* (variant: x <= b)
LoopCondInclusive(xx, bb) == QLe(xx, bb)
LoopCond(xx, bb) == QLt(xx, bb)

\* line 103: dA = 0.5 * dx * (last + current)
\* (variant: the factor 0.5 is missing)
SlabAreaUnhalved(d, l, c) == QMul(d, QAdd(l, c))
SlabArea(d, l, c) == QMul(Half, QMul(d, QAdd(l, c)))

\* the model follows a loop for at most this many iterations: one more than
\* any resolution it is called with
IterCap == MaxRes + 1

\* lines 85-98: entry up to the first evaluation
Enter ==
    /\ pc = "entry"
    /\ LET ab == SwappedBounds(a, b)
           d == StepSize(ab[1], ab[2], res)
           l == safe_eval_f(f, ab[1])
       IN  /\ a' = ab[1]
           /\ b' = ab[2]
           /\ A' = Zero
           /\ x' = ab[1]
           /\ IF d.e # NoExc
              THEN /\ pc' = "raised"
                   /\ exc' = d.e
                   /\ UNCHANGED <<dx, last>>
              ELSE /\ dx' = d.v
                   /\ IF l.e # NoExc
                      THEN /\ pc' = "raised"
                           /\ exc' = l.e
                           /\ UNCHANGED last
                      ELSE /\ pc' = "loop"
                           /\ last' = l.v
                           /\ UNCHANGED exc
    /\ UNCHANGED <<f, res, ret, iters, callerVars, momVars, gammaVars>>

\* lines 100-106: one iteration of the loop
LoopStep ==
    /\ pc = "loop"
    /\ LoopCond(x, b)
    /\ iters < IterCap
    /\ LET current == safe_eval_f(f, QAdd(x, dx))
       IN  IF current.e # NoExc
           THEN /\ pc' = "raised"
                /\ exc' = current.e
                /\ UNCHANGED <<A, x, last, iters>>
           ELSE /\ A' = QAdd(A, SlabArea(dx, last, current.v))
                /\ x' = QAdd(x, dx)
                /\ last' = current.v
                /\ iters' = iters + 1
                /\ UNCHANGED <<pc, exc>>
    /\ UNCHANGED <<f, a, b, res, dx, ret, callerVars, momVars, gammaVars>>

\* lines 100, 108: the loop ends and A is returned
Return ==
    /\ pc = "loop"
    /\ ~LoopCond(x, b)
    /\ pc' = "done"
    /\ ret' = A
    /\ UNCHANGED <<f, a, b, res, x, dx, last, A, exc, iters,
                   callerVars, momVars, gammaVars>>

\* a fresh frame for approx_integral(fn, aa, bb, rr)
NewFrame(fn, aa, bb, rr) ==
    /\ f' = fn
    /\ a' = aa
    /\ b' = bb
    /\ res' = rr
    /\ x' = None
    /\ dx' = None
    /\ last' = None
    /\ A' = None
    /\ pc' = "entry"
    /\ exc' = NoExc
    /\ ret' = None
    /\ iters' = 0

(***************************************************************************)
(* The caller of approx_integral: one integrand on one interval, called    *)
(* with the bounds in either order and at several resolutions.             *)
(***************************************************************************)
Los == {-1, 0}
Widths == {0, 2, 10}

\* resolutions the caller passes: res is not validated (line 79)
Resolutions == (-1) .. MaxRes

\* the positions k/r, r <= MaxRes, of the evaluation points in [lo, hi]
RelPos == UNION {{Q(k, r) : k \in 0 .. r} : r \in 1 .. MaxRes}

PointAt(l, h, q) == QAdd(I(l), QMul(q, I(h - l)))

Bodies ==
    {[c |-> <<1, 0, 0>>, recip |-> FALSE],
     [c |-> <<0, 1, 0>>, recip |-> FALSE],
     [c |-> <<0, 0, 1>>, recip |-> FALSE],
     [c |-> <<1, -2, 3>>, recip |-> FALSE],
     [c |-> <<0, 0, 0>>, recip |-> TRUE]}

\* where and how the caller's function fails: a domain error on any set of
\* evaluation points, or another failure at one of them
Failures(l, h) ==
    {[bad |-> {PointAt(l, h, q) : q \in S}, kind |-> "ValueError"] : S \in SUBSET RelPos}
    \cup {[bad |-> {PointAt(l, h, q)}, kind |-> k] :
             q \in RelPos, k \in ExcKinds \ {"ValueError"}}

Integrands(l, h) ==
    {[c |-> body.c, recip |-> body.recip, bad |-> fl.bad, below |-> None,
      kind |-> fl.kind, pow |-> 0] : body \in Bodies, fl \in Failures(l, h)}

NoPrev == [set |-> FALSE, a |-> None, b |-> None, res |-> 0,
           pc |-> "none", exc |-> NoExc, ret |-> None, iters |-> 0]
ThisCall == [set |-> TRUE, a |-> args.a, b |-> args.b, res |-> args.res,
             pc |-> pc, exc |-> exc, ret |-> ret, iters |-> iters]

Ended == pc \in {"done", "raised"}

\* the first call: approx_integral(f, lo, hi, r) or approx_integral(f, hi, lo, r)
Call ==
    /\ pc = "idle"
    /\ vpc = "off"
    /\ \E r \in Resolutions, fwd \in BOOLEAN :
          LET aa == IF fwd THEN I(lo) ELSE I(hi)
              bb == IF fwd THEN I(hi) ELSE I(lo)
          IN  /\ (lo = hi => fwd)
              /\ args' = [a |-> aa, b |-> bb, res |-> r]
              /\ NewFrame(f, aa, bb, r)
    /\ UNCHANGED <<lo, hi, prev, momVars, gammaVars>>

\* the same call with the bounds exchanged
CallReversed ==
    /\ Ended
    /\ vpc = "off"
    /\ ~prev.set
    /\ prev' = ThisCall
    /\ args' = [a |-> args.b, b |-> args.a, res |-> args.res]
    /\ NewFrame(f, args.b, args.a, args.res)
    /\ UNCHANGED <<lo, hi, momVars, gammaVars>>

\* the same call at a higher resolution
CallRefined ==
    /\ pc = "done"
    /\ vpc = "off"
    /\ ~prev.set
    /\ \E r \in (args.res + 1) .. MaxRes :
          /\ args.res >= 1
          /\ prev' = ThisCall
          /\ args' = [a |-> args.a, b |-> args.b, res |-> r]
          /\ NewFrame(f, args.a, args.b, r)
    /\ UNCHANGED <<lo, hi, momVars, gammaVars>>

MomIdle ==
    /\ pdf = None /\ inf = None /\ step = None /\ g = "None" /\ mu = None
    /\ vpc = "off" /\ vret = None
GammaIdle ==
    /\ zarg = None /\ z = None /\ gpc = "off" /\ gexc = NoExc
    /\ gret = [kind |-> "none", v |-> None]
IntIdle ==
    /\ a = None /\ b = None /\ res = 0 /\ x = None /\ dx = None /\ last = None
    /\ A = None /\ pc = "idle" /\ exc = NoExc /\ ret = None /\ iters = 0

Init ==
    /\ lo \in Los
    /\ \E w \in Widths : hi = lo + w
    /\ f \in Integrands(lo, hi)
    /\ args = [a |-> None, b |-> None, res |-> 0]
    /\ prev = NoPrev
    /\ IntIdle
    /\ MomIdle
    /\ GammaIdle

Next == Call \/ Enter \/ LoopStep \/ Return \/ CallReversed \/ CallRefined

Spec == Init /\ [][Next]_vars

(***************************************************************************)
(* Reference definitions for the properties of approx_integral.            *)
(***************************************************************************)
\* the evaluation point l + k*(h - l)/n of the interval [l, h] cut in n slabs
GridPointOf(l, h, n, k) == QAdd(I(l), QMul(Q(k, n), I(h - l)))

\* the integrand that equals fn where fn is defined and 0 where it fails
ZeroFilled(fn, xx) ==
    LET r == Apply(fn, xx) IN IF r.e = NoExc THEN r.v ELSE Zero

RECURSIVE InnerSum(_, _, _, _, _)
\* ZeroFilled summed over the evaluation points 1 .. k
InnerSum(fn, l, h, n, k) ==
    IF k <= 0 THEN Zero
    ELSE QAdd(InnerSum(fn, l, h, n, k - 1), ZeroFilled(fn, GridPointOf(l, h, n, k)))

\* dx * (fn(a)/2 + fn(a+dx) + ... + fn(a+(k-1)dx) + fn(a+k*dx)/2): the first k
\* slabs of the composite trapezoid sum of fn over [l, h] cut in n slabs
TrapezoidSumOf(fn, l, h, n, k) ==
    IF k = 0 THEN Zero
    ELSE QMul(Q(h - l, n),
              QAdd(QMul(Half, ZeroFilled(fn, GridPointOf(l, h, n, 0))),
                   QAdd(InnerSum(fn, l, h, n, k - 1),
                        QMul(Half, ZeroFilled(fn, GridPointOf(l, h, n, k))))))

GridPoint(n, k) == GridPointOf(lo, hi, n, k)
TrapezoidSum(n, k) == TrapezoidSumOf(f, lo, hi, n, k)

\* f raises nowhere
NeverFails == f.bad = {} /\ f.below = None /\ ~f.recip

\* the first call is in progress or over, with the bounds in order
Forward == pc # "idle" /\ args.a = I(lo) /\ args.b = I(hi)

\* f fails in some way other than a domain error at evaluation point k
HardAt(k) == Apply(f, GridPoint(res, k)).e \notin {NoExc, "ValueError"}

\* C1: for an integrand that never fails, a < b and res >= 1, the loop runs
\* exactly res iterations over the grid points a + k*dx, stops once x >= b, and
\* returns the composite trapezoid sum; f(x) = 1 over [0, 10] gives 10.
C1_CompositeTrapezoid ==
    (Forward /\ NeverFails /\ lo < hi /\ res >= 1) =>
        /\ pc # "raised"
        /\ pc \in {"loop", "done"} =>
              /\ iters <= res
              /\ x = GridPoint(res, iters)
              /\ A = TrapezoidSum(res, iters)
        /\ pc = "done" =>
              /\ iters = res
              /\ x = b
              /\ ret = TrapezoidSum(res, res)
              /\ (f.c = <<1, 0, 0>> /\ lo = 0 /\ hi = 10) => ret = I(10)

C1_Witness ==
    /\ Forward /\ NeverFails /\ pc = "done" /\ res = 3 /\ iters = 3
    /\ f.c = <<1, 0, 0>> /\ lo = 0 /\ hi = 10 /\ ret = I(10)

\* f raises only domain errors (ValueError), at some of the evaluation points
OnlyDomainErrors == \A k \in 0 .. res : ~HardAt(k)
FailsOnGrid == \E k \in 0 .. res : Apply(f, GridPoint(res, k)).e # NoExc

\* C2: when f raises ValueError at any subset of the evaluation points, the
\* call does not abort; it completes all slabs and returns the value it would
\* return for the integrand that is f where defined and 0.0 at the failing points.
C2_DomainErrorIsZero ==
    (pc # "idle" /\ res >= 1 /\ OnlyDomainErrors) =>
        /\ pc # "raised"
        /\ exc = NoExc
        /\ pc = "done" =>
              /\ lo < hi => iters = res
              /\ ret = TrapezoidSum(res, IF lo < hi THEN res ELSE 0)

C2_Witness ==
    /\ pc = "done" /\ res = 3 /\ OnlyDomainErrors /\ ret # Zero
    /\ Apply(f, GridPoint(res, 0)).e = "ValueError"
    /\ Apply(f, GridPoint(res, 2)).e = "ValueError"
    /\ Apply(f, GridPoint(res, 1)).e = NoExc

\* f is x |-> 1/x and x = 0 is one of the evaluation points
ReciprocalOverZero ==
    /\ pc # "idle" /\ res >= 1 /\ lo < hi
    /\ f.recip /\ f.bad = {} /\ f.below = None
    /\ \E k \in 0 .. res : GridPoint(res, k) = Zero

\* C3 as stated: for f(x) = 1/x over a grid that includes x = 0 the call does
\* not abort; the evaluation at 0 counts as 0.0 and the call returns a value.
C3_Original == ReciprocalOverZero => pc # "raised"

\* C3 as amended: for f(x) = 1/x over a grid that includes x = 0 the evaluation
\* at 0 raises ZeroDivisionError, which safe_eval_f does not catch: the call
\* aborts with it and returns no value.
C3_ZeroDivisionPropagates ==
    ReciprocalOverZero =>
        /\ pc # "done"
        /\ ret = None
        /\ pc = "raised" => exc = "ZeroDivisionError"

C3_Witness ==
    /\ ReciprocalOverZero /\ pc = "raised" /\ exc = "ZeroDivisionError"
    /\ lo = -1 /\ res = 2 /\ last = I(-1)

\* the first evaluation point at which f fails other than by a domain error
FirstHard == CHOOSE k \in 0 .. res : HardAt(k) /\ \A j \in 0 .. (k - 1) : ~HardAt(j)

\* C4: a failure of f other than a domain error propagates unchanged at that
\* evaluation point: the integration stops there and no partial value is returned.
C4_OtherFailuresPropagate ==
    (pc # "idle" /\ res >= 1 /\ lo < hi /\ ~OnlyDomainErrors) =>
        /\ pc # "done"
        /\ ret = None
        /\ pc = "loop" => iters < FirstHard
        /\ pc = "raised" =>
              /\ exc = Apply(f, GridPoint(res, FirstHard)).e
              /\ iters = (IF FirstHard = 0 THEN 0 ELSE FirstHard - 1)

C4_Witness ==
    /\ pc = "raised" /\ exc = "OverflowError" /\ res = 3 /\ lo < hi
    /\ iters = 2 /\ A # Zero /\ ret = None

\* the current call is the previous one with the bounds exchanged
Reversal ==
    /\ prev.set /\ args.a = prev.b /\ args.b = prev.a /\ args.res = prev.res

\* C5: approx_integral(f, a, b, r) equals approx_integral(f, b, a, r) for a, b
\* in either order, a = b included, and r >= 1: reversed bounds are exchanged
\* and the result is the integral over [min(a,b), max(a,b)], never negated.
C5_OrderIndependent ==
    (Reversal /\ res >= 1) =>
        /\ pc \in {"loop", "done"} => (a = I(lo) /\ b = I(hi))
        /\ Ended =>
              /\ pc = prev.pc
              /\ exc = prev.exc
              /\ ret = prev.ret
              /\ iters = prev.iters

C5_Witness ==
    /\ Reversal /\ res = 3 /\ pc = "done" /\ QLt(args.b, args.a)
    /\ ret # Zero /\ ret = prev.ret /\ FailsOnGrid

\* C9 as stated: for a < b and a zero or negative resolution the call still
\* ends by returning a result, rather than raising or never returning.
C9_Original == (Forward /\ NeverFails /\ lo < hi /\ res <= 0) => pc # "raised"

\* C9 as amended: resolution is not validated and no result is returned for
\* a < b and res <= 0: res = 0 raises ZeroDivisionError at dx = (b - a) / res
\* before f is evaluated, and for res < 0 the loop condition x < b stays true
\* (x moves away from b), so the call never returns a value.
C9_NoResultForBadResolution ==
    (Forward /\ lo < hi /\ res <= 0) =>
        /\ pc # "done"
        /\ ret = None
        /\ res = 0 => (pc \in {"entry", "raised"} /\ (pc = "raised" => exc = "ZeroDivisionError"))
        /\ (res < 0 /\ pc = "loop") =>
              /\ LoopCond(x, b)
              /\ QLt(dx, Zero)
              /\ x = QAdd(a, QMul(I(iters), dx))

C9_Witness ==
    /\ Forward /\ lo < hi /\ res < 0 /\ pc = "loop" /\ iters = IterCap
    /\ NeverFails /\ QLt(x, a)

\* the integral of c0 + c1*x + c2*x*x over [lo, hi]
ExactIntegral ==
    QAdd(QMul(I(f.c[1]), I(hi - lo)),
         QAdd(QMul(Q(f.c[2], 2), I(hi * hi - lo * lo)),
              QMul(Q(f.c[3], 3), I(hi * hi * hi - lo * lo * lo))))

Error(v) == QAbs(QSub(v, ExactIntegral))

\* the current call is the previous one at a higher resolution
Refined ==
    /\ prev.set /\ args.a = prev.a /\ args.b = prev.b /\ prev.res < args.res
    /\ pc = "done" /\ NeverFails /\ lo < hi

Round(q) ==
    LET fl == q[1] \div q[2]
        twice == 2 * (q[1] - fl * q[2])
    IN  IF twice < q[2] THEN fl
        ELSE IF twice > q[2] THEN fl + 1
        ELSE IF fl % 2 = 0 THEN fl ELSE fl + 1

\* lines 123-126: the integrand g(x) * pdf(x), or x * pdf(x) without g
MomentIntegrand(density, transform) ==
    [density EXCEPT !.pow = IF transform = "None" THEN 1 ELSE 2]

\* line 121: res = round(2 * inf / dx)
MomentResolution(bound, d) == Round(QDiv(I(2 * bound), d))

\* line 137: E[X^2] - mu * mu
\* (variant: mu is not squared)
VarianceValueUnsquared(ex2, m) == QSub(ex2, m)
VarianceValue(ex2, m) == QSub(ex2, QMul(m, m))

\* lines 121-126: expected_val_continuous(pdf, g, inf, dx) up to its call of
\* approx_integral(f, a = -inf, b = inf, res)
ExpectedValCall(transform) ==
    /\ g' = transform
    /\ NewFrame(MomentIntegrand(pdf, transform), I(-inf), I(inf),
                MomentResolution(inf, step))

\* line 136: mu = expected_val_continuous(pdf, None, inf, dx)
VarianceCall ==
    /\ vpc = "idle"
    /\ ExpectedValCall("None")
    /\ vpc' = "mu"
    /\ UNCHANGED <<callerVars, pdf, inf, step, mu, vret, gammaVars>>

\* lines 136-137: mu is bound and expected_val_continuous(pdf, x*x, inf, dx) called
VarianceMu ==
    /\ vpc = "mu"
    /\ pc = "done"
    /\ mu' = ret
    /\ ExpectedValCall("square")
    /\ vpc' = "ex2"
    /\ UNCHANGED <<callerVars, pdf, inf, step, vret, gammaVars>>

\* line 137: the difference is returned
VarianceReturn ==
    /\ vpc = "ex2"
    /\ pc = "done"
    /\ vret' = VarianceValue(ret, mu)
    /\ vpc' = "done"
    /\ UNCHANGED <<intVars, callerVars, pdf, inf, step, g, mu, gammaVars>>

\* lines 136-137: an exception of either integration leaves variance_continuous
VarianceRaise ==
    /\ vpc \in {"mu", "ex2"}
    /\ pc = "raised"
    /\ vpc' = "raised"
    /\ UNCHANGED <<intVars, callerVars, pdf, inf, step, g, mu, vret, gammaVars>>

\* truncation bounds and steps the caller passes (inf > 0, dx > 0)
Truncations == {1, 2}
Steps == {I(1), Q(4, 3), Q(8, 5), Q(8, 3), I(4), I(8)}

DensityBodies ==
    {[c |-> <<1, 0, 0>>, recip |-> FALSE],
     [c |-> <<1, 1, 0>>, recip |-> FALSE],
     [c |-> <<2, -1, 1>>, recip |-> FALSE],
     [c |-> <<0, 0, 0>>, recip |-> TRUE]}

\* a density raises below its support, at single points, or nowhere
DensityFailures(bound) ==
    {[bad |-> S, below |-> t, kind |-> k] :
        S \in SUBSET {I(-bound), Zero, I(bound)},
        t \in {None, Zero},
        k \in {"ValueError", "OverflowError"}}
    \ {[bad |-> {}, below |-> None, kind |-> "OverflowError"]}

Densities(bound) ==
    {[c |-> body.c, recip |-> body.recip, bad |-> fl.bad, below |-> fl.below,
      kind |-> fl.kind, pow |-> 0] : body \in DensityBodies, fl \in DensityFailures(bound)}

InitMoments ==
    /\ inf \in Truncations
    /\ step \in Steps
    /\ pdf \in Densities(inf)
    /\ g = "None" /\ mu = None /\ vpc = "idle" /\ vret = None
    /\ lo = -inf /\ hi = inf
    /\ f = pdf
    /\ args = [a |-> None, b |-> None, res |-> 0]
    /\ prev = NoPrev
    /\ IntIdle
    /\ GammaIdle

NextMoments ==
    VarianceCall \/ Enter \/ LoopStep \/ Return \/ VarianceMu \/ VarianceReturn
    \/ VarianceRaise

SpecMoments == InitMoments /\ [][NextMoments]_vars

\* R = round(2*inf/dx), written out: the integer nearest to 2*inf/dx, the even
\* one of the two when 2*inf/dx lies half way
NearestEven ==
    CHOOSE n \in 0 .. (2 * inf) :
        /\ QLe(QAbs(QSub(I(n), QDiv(I(2 * inf), step))), Half)
        /\ (QAbs(QSub(I(n), QDiv(I(2 * inf), step))) = Half => n % 2 = 0)

\* approx_integral(x -> x*pdf(x), -inf, inf, R) and
\* approx_integral(x -> x*x*pdf(x), -inf, inf, R) as composite trapezoid sums
FirstMoment == TrapezoidSumOf([pdf EXCEPT !.pow = 1], -inf, inf, NearestEven, NearestEven)
SecondMoment == TrapezoidSumOf([pdf EXCEPT !.pow = 2], -inf, inf, NearestEven, NearestEven)

\* C6: variance_continuous(pdf, inf, dx) equals I2 - I1*I1, with R =
\* round(2*inf/dx), I1 the integral of x*pdf(x) and I2 the integral of
\* x*x*pdf(x), both over [-inf, inf] at resolution R with the same inf and dx.
C6_VarianceIsSecondMinusFirstSquared ==
    /\ vpc \in {"mu", "ex2"} =>
          /\ res = NearestEven
          /\ f = [pdf EXCEPT !.pow = IF vpc = "mu" THEN 1 ELSE 2]
          /\ pc = "entry" => (a = I(-inf) /\ b = I(inf))
          /\ pc = "done" => ret = (IF vpc = "mu" THEN FirstMoment ELSE SecondMoment)
    /\ vpc = "ex2" => mu = FirstMoment
    /\ vpc = "done" =>
          /\ NearestEven >= 1
          /\ mu = FirstMoment
          /\ ret = SecondMoment
          /\ vret = QSub(SecondMoment, QMul(FirstMoment, FirstMoment))
    /\ vpc = "raised" => (vret = None /\ exc # NoExc /\ exc # "ValueError")

C6_Witness ==
    /\ vpc = "done" /\ inf = 2 /\ step = Q(8, 5) /\ res = 2
    /\ pdf.below = Zero /\ pdf.kind = "ValueError" /\ pdf.c = <<1, 1, 0>>
    /\ mu # Zero /\ mu # I(1) /\ vret # Zero

(***************************************************************************)
(* Gamma (src/statlib.py 140-161).                                         *)
(***************************************************************************)
\* math.isclose's default rel_tol is 1e-09 (and abs_tol 0.0): 1 / RelTolInv
RelTolInv == 1000000000

QMax(p, q) == IF QLt(p, q) THEN q ELSE p

\* math.isclose(p, q): |p - q| <= max(rel_tol * max(|p|, |q|), abs_tol).
\* With diff = n1/d1 and max(|p|, |q|) = n2/d2 this is
\* n1 * d2 * RelTolInv <= n2 * d1, i.e. n1 * d2 <= (n2 * d1) \div RelTolInv.
IsClose(p, q) ==
    LET diff == QAbs(QSub(p, q))
        m == QMax(QAbs(p), QAbs(q))
    IN  p = q \/ diff[1] * m[2] <= (m[1] * diff[2]) \div RelTolInv

\* z % 1 (Python's floored modulo)
Mod1(q) == Q(q[1] % q[2], q[2])

RECURSIVE factorial(_)
\* math.factorial(n): ValueError for a negative n
factorial(n) ==
    IF n < 0 THEN Raise("ValueError")
    ELSE IF n = 0 THEN Ok(I(1))
    ELSE Ok(QMul(I(n), factorial(n - 1).v))

\* line 152: the argument round(z) - 1 of math.factorial
\* (variant: the - 1 is missing)
FactorialArgUnshifted(zz) == Round(zz)
FactorialArg(zz) == Round(zz) - 1

\* line 157: math.sqrt(2 * math.pi * z) raises ValueError for a negative argument
SqrtDomain(zz) == ~QLt(zz, Zero)

\* math.sinh(t) overflows a double (OverflowError) for t above 710.47...
SinhMax == 710

\* line 159: math.sinh(1 / z) raises OverflowError; zz > 0
SinhOverflows(zz) == QLt(I(SinhMax), QDiv(I(1), zz))

NoValue == [kind |-> "none", v |-> None]

\* Gamma(zarg) is called
GammaCall ==
    /\ gpc = "idle"
    /\ z' = zarg
    /\ gpc' = "test"
    /\ UNCHANGED <<zarg, gexc, gret, intVars, callerVars, momVars>>

\* lines 151-152: z is integral and the factorial is returned
GammaExact ==
    /\ gpc = "test"
    /\ IsClose(Mod1(z), Zero)
    /\ LET r == factorial(FactorialArg(z))
       IN  IF r.e # NoExc
           THEN /\ gpc' = "raised"
                /\ gexc' = r.e
                /\ UNCHANGED gret
           ELSE /\ gpc' = "done"
                /\ gret' = [kind |-> "exact", v |-> r.v]
                /\ UNCHANGED gexc
    /\ UNCHANGED <<zarg, z, intVars, callerVars, momVars>>

\* lines 151, 154: z is not integral; z -= 1
GammaShift ==
    /\ gpc = "test"
    /\ ~IsClose(Mod1(z), Zero)
    /\ z' = QSub(z, I(1))
    /\ gpc' = "formula"
    /\ UNCHANGED <<zarg, gexc, gret, intVars, callerVars, momVars>>

\* lines 156-161: the approximation formula at the shifted z, its factors
\* evaluated left to right; the value is kept as the formula's argument.  The
\* arguments of the model stay far below the overflow of math.pow(z / e, z).
GammaFormula ==
    /\ gpc = "formula"
    /\ IF ~SqrtDomain(z)
       THEN /\ gpc' = "raised"
            /\ gexc' = "ValueError"
            /\ UNCHANGED gret
       ELSE IF SinhOverflows(z)
       THEN /\ gpc' = "raised"
            /\ gexc' = "OverflowError"
            /\ UNCHANGED gret
       ELSE /\ gpc' = "done"
            /\ gret' = [kind |-> "approx", v |-> z]
            /\ UNCHANGED gexc
    /\ UNCHANGED <<zarg, z, intVars, callerVars, momVars>>

\* arguments of Gamma, positive and not: n/d, and two next to 1
GammaArgs ==
    {Q(n, d) : n \in (-MaxZNum) .. MaxZNum, d \in {1, 2, 4}}
    \cup {Q(999, 1000), Q(1001, 1000)}

InitGamma ==
    /\ zarg \in GammaArgs
    /\ z = None /\ gpc = "idle" /\ gexc = NoExc /\ gret = NoValue
    /\ lo = 0 /\ hi = 0
    /\ f = None
    /\ args = [a |-> None, b |-> None, res |-> 0]
    /\ prev = NoPrev
    /\ IntIdle
    /\ MomIdle

NextGamma == GammaCall \/ GammaExact \/ GammaShift \/ GammaFormula

SpecGamma == InitGamma /\ [][NextGamma]_vars

\* (n)! as a product 1 * 2 * ... * n
ProductTo[n \in 0 .. (MaxZNum + 1)] == IF n = 0 THEN 1 ELSE n * ProductTo[n - 1]

\* C7: for an integral argument z, Gamma takes the exact path only: it returns
\* (z-1)! when z >= 1 (Gamma(5) = 24) and, when z <= 0, fails with a domain
\* error without the approximation formula being evaluated.
C7_ExactPathForIntegers ==
    (gpc # "idle" /\ QIsInt(zarg)) =>
        /\ gpc \in {"test", "done", "raised"}
        /\ z = zarg
        /\ zarg[1] >= 1 =>
              /\ gpc # "raised"
              /\ gpc = "done" => gret = [kind |-> "exact", v |-> I(ProductTo[zarg[1] - 1])]
        /\ zarg[1] <= 0 =>
              /\ gpc # "done"
              /\ gret = NoValue
              /\ gpc = "raised" => gexc = "ValueError"
        /\ (zarg = I(5) /\ gpc = "done") => gret.v = I(24)

C7_Witness == zarg = I(5) /\ gpc = "done" /\ gret = [kind |-> "exact", v |-> I(24)]

\* C8: for every positive real z, Gamma(z) returns a value (the factorial for
\* positive integers, the approximation formula at z-1 otherwise); no positive
\* z, non-integers in (0, 1) included, ends in a failure.
C8_PositiveArgumentsReturn == QLt(Zero, zarg) => gpc # "raised"

=============================================================================
